---- MODULE Spec2Model ----
(***************************************************************************)
(* Model of telegram_bot.py: the account connection map ACTIVE_CLIENTS,    *)
(* the pending-login map PENDING_AUTH and the request handlers that        *)
(* read and change them.  The handlers are coroutines on one event loop:   *)
(* a handler runs atomically from one await to the next, and other         *)
(* requests run while it is suspended in an await.  Each await of a        *)
(* handler is therefore the boundary between two actions of the model.     *)
(*                                                                         *)
(* Strings that the code takes apart (phones, names) are sequences of      *)
(* one-character strings.  A name the request leaves out (None) and the    *)
(* empty name "" are both the empty sequence: the code only tests them     *)
(* for truth (`req.name or ...`).                                          *)
(*                                                                         *)
(* Four specifications share the handlers.  Spec is the login flow and     *)
(* the account requests, two requests at a time.  SpecOps is the account   *)
(* requests beside dialogs, export_members and send_message, up to the     *)
(* shutdown of the process.  SpecTargets is export_members alone, asked    *)
(* with the targets that exercise its normalization.  SpecFrame is every   *)
(* handler, one request at a time.                                         *)
(*                                                                         *)
(* Library calls are the environment: what send_code_request, sign_in and  *)
(* is_user_authorized answer is chosen nondeterministically among the      *)
(* results the handlers distinguish.  connect() completes; disconnect()    *)
(* completes, except in remove_account, whose try/except handles its       *)
(* failure.                                                                *)
(***************************************************************************)
EXTENDS Integers, Sequences, FiniteSets, TLC

\* ----------------------------------------------------------------- bounds
\* Number of TelegramClient objects the handlers may construct in one run.
MaxClients == 3

\* The requests that can be suspended in an await at the same time: two, so
\* that every await of one handler is interleaved with every step of another.
Procs == {1, 2}

\* ----------------------------------------------------------------- inputs
\* req.phone of auth_start: "1", "+1" and " 2".
StartPhones == {<<"1">>, <<"+", "1">>, <<" ", "2">>}
\* req.phone of auth_confirm and auth_confirm_2fa: "1" and "+1 ".  The login
\* of "+2" is started and never confirmed: its record is the other phone's
\* record of the flows of "+1".
ConfirmPhones == {<<"1">>, <<"+", "1", " ">>}
\* req.name of the auth requests: absent (or "") and "a".
ReqNames == {<<>>, <<"a">>}
\* req.name of add_account and remove_account: "a", which an auth request
\* may name too ("+1" and "+2" are the accounts of the unnamed logins).
AccountNames == {<<"a">>}

\* req.account of dialogs, export_members and send_message: "a", and "b",
\* which no request ever adds.
OpsAccounts == {<<"a">>, <<"b">>}

\* ------------------------------------------- inputs of export_members
\* group of the request body: strings
GroupStrings == {
    <<"-", "1", "0", "0", "1", "4", "5", "0", "4", "4", "5", "9", "5", "9">>,
    <<"1", "4", "5", "0", "4", "4", "5", "9", "5", "9">>,
    <<"s", "o", "m", "e", "_", "g", "r", "o", "u", "p">>,
    <<" ", "-", "1", "0", "0", "5", " ">>,
    <<"-", "1", "0", "0", "7">>,
    <<"-", "0", "1", "0", "0", "5">>,
    <<"-", "1", "0", "0">>,
    <<"-", "1", "0", "0", "x">>,
    <<"-", "-", "5">>,
    <<"-", "5">>,
    <<"0", "7">>,
    <<"-">>,
    <<" ", "g", " ">>,
    <<" ">> }
\* group or chat_id of the request body: ints
TargetInts == {1450445959, 1005, 7, 0, -7, -100, -1000, -1005, -10012}

Whitespace == {" "}

VARIABLES
    ACTIVE_CLIENTS, \* account name -> client id             (line 23)
    PENDING_AUTH,   \* normalized phone -> pending record    (line 25)
    clients,        \* the TelegramClient objects constructed so far
    proc,           \* the requests suspended in an await: one record per slot
    last            \* the request that completed last: its handler, the
                    \* await it completed from, what the library answered
                    \* there, and the response it was given

vars == <<ACTIVE_CLIENTS, PENDING_AUTH, clients, proc, last>>

\* ---------------------------------------------------------------- helpers
RECURSIVE lstrip(_)
lstrip(s) == IF s # <<>> /\ Head(s) \in Whitespace THEN lstrip(Tail(s)) ELSE s

RECURSIVE rstrip(_)
rstrip(s) == IF s # <<>> /\ s[Len(s)] \in Whitespace THEN rstrip(SubSeq(s, 1, Len(s) - 1)) ELSE s

\* str.strip()
strip(s) == rstrip(lstrip(s))

\* lines 120-124
_norm_phone(phone) == IF strip(phone) # <<>> /\ Head(strip(phone)) = "+" THEN strip(phone) ELSE <<"+">> \o strip(phone)

\* dict.get(key) is not None
has_key(d, k) == k \in DOMAIN d

\* d[k] = v
dict_set(d, k, v) == [x \in DOMAIN d \cup {k} |-> IF x = k THEN v ELSE d[x]]

\* a faulty variant of dict_pop: the key is left in place
dict_pop_forgotten(d, k) == d

\* d.pop(k, None)
dict_pop(d, k) == [x \in DOMAIN d \ {k} |-> d[x]]

\* ------------------------------------------------------------ the records
NoInfo == [ref |-> 0, session_str |-> 0, phone_code_hash |-> 0, needs_2fa |-> FALSE, name |-> <<>>]

NoResp == [status |-> 0, kind |-> "none", ok |-> FALSE, account |-> <<>>, needs_2fa |-> FALSE]

\* A slot with no request in it.  pc names the await a request is suspended
\* in; a request that completes without awaiting completes at pc "call".
Idle == [op |-> "idle", pc |-> "idle", req_name |-> <<>>, phone |-> <<>>, name |-> <<>>, client |-> 0, info |-> NoInfo, ret |-> "none"]

\* return {...}: the handler's 200 response
Return(kind, ok, account, needs_2fa) == [status |-> 200, kind |-> kind, ok |-> ok, account |-> account, needs_2fa |-> needs_2fa]

\* raise HTTPException(status, ...), or an exception the handler does not
\* catch, which the framework answers with status 500
Raise(status, kind) == [status |-> status, kind |-> kind, ok |-> FALSE, account |-> <<>>, needs_2fa |-> FALSE]

\* The request of slot s completes: r is its record as it ends.
Complete(s, r, resp) ==
    /\ proc' = [proc EXCEPT ![s] = Idle]
    /\ last' = [op |-> r.op, pc |-> r.pc, ret |-> r.ret, resp |-> resp]

\* The request of slot s runs on to its next await.
Suspend(s, r) ==
    /\ proc' = [proc EXCEPT ![s] = r]
    /\ UNCHANGED last

\* TelegramClient(...): a new client object, not yet connected
NewClient == Len(clients) + 1

CanConstruct == Len(clients) < MaxClients

\* key is the account name the client has been stored under (none: <<>>)
Constructed == Append(clients, [status |-> "new", key |-> <<>>])

\* the client's state once `await client.connect()` has returned
Connected(cs, c) == [cs EXCEPT ![c].status = "open"]

\* the client's state once `await client.disconnect()` has returned
Disconnected(cs, c) == [cs EXCEPT ![c].status = "closed"]

\* the client's state once `await client.disconnect()` has raised: a client
\* that was open may or may not still hold its connection
DisconnectFailed(cs, c) == [cs EXCEPT ![c].status = IF @ = "closed" THEN "closed" ELSE "closefailed"]

\* ACTIVE_CLIENTS[name] = client: the client is now an account's connection
Stored(cs, c, name) == [cs EXCEPT ![c].key = name]

Init ==
    /\ ACTIVE_CLIENTS = <<>>
    /\ PENDING_AUTH = <<>>
    /\ clients = <<>>
    /\ proc = [s \in Procs |-> Idle]
    /\ last = [op |-> "idle", pc |-> "idle", ret |-> "none", resp |-> NoResp]

\* ------------------------------------------------------------ add_account
\* a faulty variant of already_added: the check of line 136 is missing
already_added_unchecked(name) == FALSE

\* line 136: if req.name in ACTIVE_CLIENTS
already_added(name) == has_key(ACTIVE_CLIENTS, name)

\* lines 135-140: up to `await client.connect()`, or the return of line 137
add_account(s) ==
    /\ proc[s].pc = "idle"
    /\ \E name \in AccountNames :
        LET r == [Idle EXCEPT !.op = "add_account", !.req_name = name, !.name = name] IN
        IF already_added(name)
        THEN /\ Complete(s, [r EXCEPT !.pc = "call"], Return("already_added", TRUE, <<>>, FALSE))
             /\ UNCHANGED <<ACTIVE_CLIENTS, PENDING_AUTH, clients>>
        ELSE /\ CanConstruct
             /\ clients' = Constructed
             /\ Suspend(s, [r EXCEPT !.pc = "connect", !.client = NewClient])
             /\ UNCHANGED <<ACTIVE_CLIENTS, PENDING_AUTH>>

\* lines 140-142: connect() has returned, up to `await client.is_user_authorized()`
add_account_connected(s) ==
    /\ proc[s].op = "add_account" /\ proc[s].pc = "connect"
    /\ clients' = Connected(clients, proc[s].client)
    /\ Suspend(s, [proc[s] EXCEPT !.pc = "is_user_authorized"])
    /\ UNCHANGED <<ACTIVE_CLIENTS, PENDING_AUTH>>

\* a faulty variant of add_account_checked: the unauthorized client is not
\* disconnected before the 401 is raised
add_account_checked_leaky(s) ==
    /\ proc[s].op = "add_account" /\ proc[s].pc = "is_user_authorized"
    /\ \E authorized \in BOOLEAN :
        IF authorized
        THEN /\ ACTIVE_CLIENTS' = dict_set(ACTIVE_CLIENTS, proc[s].name, proc[s].client)
             /\ clients' = Stored(clients, proc[s].client, proc[s].name)
             /\ Complete(s, [proc[s] EXCEPT !.ret = "authorized"], Return("added", TRUE, <<>>, FALSE))
             /\ UNCHANGED PENDING_AUTH
        ELSE /\ Complete(s, [proc[s] EXCEPT !.ret = "unauthorized"], Raise(401, "unauthorized"))
             /\ UNCHANGED <<ACTIVE_CLIENTS, PENDING_AUTH, clients>>

\* lines 142-147: is_user_authorized() has returned; either the client is
\* stored and the handler returns, or the handler awaits disconnect()
add_account_checked(s) ==
    /\ proc[s].op = "add_account" /\ proc[s].pc = "is_user_authorized"
    /\ \E authorized \in BOOLEAN :
        IF authorized
        THEN /\ ACTIVE_CLIENTS' = dict_set(ACTIVE_CLIENTS, proc[s].name, proc[s].client)
             /\ clients' = Stored(clients, proc[s].client, proc[s].name)
             /\ Complete(s, [proc[s] EXCEPT !.ret = "authorized"], Return("added", TRUE, <<>>, FALSE))
             /\ UNCHANGED PENDING_AUTH
        ELSE /\ Suspend(s, [proc[s] EXCEPT !.pc = "disconnect", !.ret = "unauthorized"])
             /\ UNCHANGED <<ACTIVE_CLIENTS, PENDING_AUTH, clients>>

\* lines 143-144: disconnect() has returned, the handler raises 401
add_account_disconnected(s) ==
    /\ proc[s].op = "add_account" /\ proc[s].pc = "disconnect"
    /\ clients' = Disconnected(clients, proc[s].client)
    /\ Complete(s, proc[s], Raise(401, "unauthorized"))
    /\ UNCHANGED <<ACTIVE_CLIENTS, PENDING_AUTH>>

\* --------------------------------------------------------- remove_account
\* lines 150-154 and 158: up to `await client.disconnect()`, or the return
\* of line 158 when the name has no client
remove_account(s) ==
    /\ proc[s].pc = "idle"
    /\ \E name \in AccountNames :
        LET r == [Idle EXCEPT !.op = "remove_account", !.req_name = name, !.name = name] IN
        IF has_key(ACTIVE_CLIENTS, name)
        THEN Suspend(s, [r EXCEPT !.pc = "disconnect", !.client = ACTIVE_CLIENTS[name]])
        ELSE Complete(s, [r EXCEPT !.pc = "call"], Return("removed", TRUE, <<>>, FALSE))
    /\ UNCHANGED <<ACTIVE_CLIENTS, PENDING_AUTH, clients>>

\* lines 153-158: disconnect() has returned or raised (the exception is
\* swallowed), the name is popped and the handler returns
remove_account_disconnected(s) ==
    /\ proc[s].op = "remove_account" /\ proc[s].pc = "disconnect"
    /\ \E raised \in BOOLEAN :
        /\ clients' = IF raised THEN DisconnectFailed(clients, proc[s].client) ELSE Disconnected(clients, proc[s].client)
        /\ Complete(s, [proc[s] EXCEPT !.ret = IF raised THEN "Exception" ELSE "ok"], Return("removed", TRUE, <<>>, FALSE))
    /\ ACTIVE_CLIENTS' = dict_pop(ACTIVE_CLIENTS, proc[s].name)
    /\ UNCHANGED PENDING_AUTH

\* ------------------------------------------------------------- auth_start
\* lines 178-183: the pending record auth_start stores.  The session state
\* and the verification handle are the ones of the temporary client, so
\* they are named by it; ref is the identity of the dict object.
pending_record(client, name) == [ref |-> client, session_str |-> client, phone_code_hash |-> client, needs_2fa |-> FALSE, name |-> name]

\* a faulty variant of store_pending: the new record takes over the flag
\* of the record it replaces
store_pending_keeps_flag(phone, client, name) == dict_set(PENDING_AUTH, phone, IF has_key(PENDING_AUTH, phone) THEN [pending_record(client, name) EXCEPT !.needs_2fa = PENDING_AUTH[phone].needs_2fa] ELSE pending_record(client, name))

\* line 178: PENDING_AUTH[phone] = {...}
store_pending(phone, client, name) == dict_set(PENDING_AUTH, phone, pending_record(client, name))

\* line 169: name = req.name or phone
start_name(req_name, phone) == IF req_name # <<>> THEN req_name ELSE phone

\* lines 167-174: up to `await client.connect()`
auth_start(s) ==
    /\ proc[s].pc = "idle"
    /\ CanConstruct
    /\ \E req_phone \in StartPhones, req_name \in ReqNames :
        Suspend(s, [Idle EXCEPT !.op = "auth_start", !.pc = "connect", !.req_name = req_name, !.phone = _norm_phone(req_phone), !.name = start_name(req_name, _norm_phone(req_phone)), !.client = NewClient])
    /\ clients' = Constructed
    /\ UNCHANGED <<ACTIVE_CLIENTS, PENDING_AUTH>>

\* lines 174-177: connect() has returned, up to `await client.send_code_request(phone)`
auth_start_connected(s) ==
    /\ proc[s].op = "auth_start" /\ proc[s].pc = "connect"
    /\ clients' = Connected(clients, proc[s].client)
    /\ Suspend(s, [proc[s] EXCEPT !.pc = "send_code_request"])
    /\ UNCHANGED <<ACTIVE_CLIENTS, PENDING_AUTH>>

\* a faulty variant of auth_start_sent: the record is stored before the
\* outcome of send_code_request is known
auth_start_sent_stores_first(s) ==
    /\ proc[s].op = "auth_start" /\ proc[s].pc = "send_code_request"
    /\ \E ret \in {"ok", "PhoneNumberInvalidError", "FloodWaitError", "Exception"} :
        /\ Suspend(s, [proc[s] EXCEPT !.pc = "disconnect", !.ret = ret])
        /\ PENDING_AUTH' = store_pending(proc[s].phone, proc[s].client, proc[s].name)
    /\ UNCHANGED <<ACTIVE_CLIENTS, clients>>

\* lines 177-193: send_code_request() has returned or raised; on success the
\* pending record is stored; every branch then awaits disconnect()
auth_start_sent(s) ==
    /\ proc[s].op = "auth_start" /\ proc[s].pc = "send_code_request"
    /\ \E ret \in {"ok", "PhoneNumberInvalidError", "FloodWaitError", "Exception"} :
        /\ Suspend(s, [proc[s] EXCEPT !.pc = "disconnect", !.ret = ret])
        /\ PENDING_AUTH' = IF ret = "ok" THEN store_pending(proc[s].phone, proc[s].client, proc[s].name) ELSE PENDING_AUTH
    /\ UNCHANGED <<ACTIVE_CLIENTS, clients>>

\* a faulty variant of auth_start_disconnected: the except clauses raise
\* without having disconnected the client
auth_start_disconnected_leaky(s) ==
    /\ proc[s].op = "auth_start" /\ proc[s].pc = "disconnect"
    /\ clients' = IF proc[s].ret = "ok" THEN Disconnected(clients, proc[s].client) ELSE clients
    /\ Complete(s, proc[s],
            CASE proc[s].ret = "ok" -> Return("code_sent", TRUE, <<>>, FALSE)
              [] proc[s].ret = "PhoneNumberInvalidError" -> Raise(400, "invalid_phone")
              [] proc[s].ret = "FloodWaitError" -> Raise(429, "flood_wait")
              [] OTHER -> Raise(500, "error"))
    /\ UNCHANGED <<ACTIVE_CLIENTS, PENDING_AUTH>>

\* lines 184-194: disconnect() has returned; the handler returns or raises
auth_start_disconnected(s) ==
    /\ proc[s].op = "auth_start" /\ proc[s].pc = "disconnect"
    /\ clients' = Disconnected(clients, proc[s].client)
    /\ Complete(s, proc[s],
            CASE proc[s].ret = "ok" -> Return("code_sent", TRUE, <<>>, FALSE)
              [] proc[s].ret = "PhoneNumberInvalidError" -> Raise(400, "invalid_phone")
              [] proc[s].ret = "FloodWaitError" -> Raise(429, "flood_wait")
              [] OTHER -> Raise(500, "error"))
    /\ UNCHANGED <<ACTIVE_CLIENTS, PENDING_AUTH>>

\* ----------------------------------------------------------- auth_confirm
\* a faulty variant of resolved_name: the name of the request is ignored
resolved_name_ignores_request(req_name, info, phone) == IF info.name # <<>> THEN info.name ELSE phone

\* lines 205 and 240: name = req.name or info.get("name") or phone
resolved_name(req_name, info, phone) == IF req_name # <<>> THEN req_name ELSE IF info.name # <<>> THEN info.name ELSE phone

\* line 217: info["needs_2fa"] = True.  info is the dict the handler read
\* before its awaits: the write shows in PENDING_AUTH only if that dict is
\* still the phone's record.
set_needs_2fa(phone, info) == IF has_key(PENDING_AUTH, phone) /\ PENDING_AUTH[phone].ref = info.ref THEN [PENDING_AUTH EXCEPT ![phone].needs_2fa = TRUE] ELSE PENDING_AUTH

\* lines 199-201: the rejection of auth_confirm
confirm_guard(phone) == IF ~has_key(PENDING_AUTH, phone) THEN "start_not_called" ELSE "pass"

\* info = PENDING_AUTH.get(phone)
dict_get(d, k) == IF has_key(d, k) THEN d[k] ELSE NoInfo

\* lines 197-208: up to `await client.connect()`, or the 400 of line 201
auth_confirm(s) ==
    /\ proc[s].pc = "idle"
    /\ \E req_phone \in ConfirmPhones, req_name \in ReqNames :
        LET phone == _norm_phone(req_phone)
            info == dict_get(PENDING_AUTH, phone)
            r == [Idle EXCEPT !.op = "auth_confirm", !.req_name = req_name, !.phone = phone, !.info = info]
        IN
        IF confirm_guard(phone) # "pass"
        THEN /\ Complete(s, [r EXCEPT !.pc = "call"], Raise(400, confirm_guard(phone)))
             /\ UNCHANGED clients
        ELSE /\ CanConstruct
             /\ clients' = Constructed
             /\ Suspend(s, [r EXCEPT !.pc = "connect", !.name = resolved_name(req_name, info, phone), !.client = NewClient])
    /\ UNCHANGED <<ACTIVE_CLIENTS, PENDING_AUTH>>

\* lines 208-211: connect() has returned, up to `await client.sign_in(...)`
auth_confirm_connected(s) ==
    /\ proc[s].op = "auth_confirm" /\ proc[s].pc = "connect"
    /\ clients' = Connected(clients, proc[s].client)
    /\ Suspend(s, [proc[s] EXCEPT !.pc = "sign_in"])
    /\ UNCHANGED <<ACTIVE_CLIENTS, PENDING_AUTH>>

\* lines 211-228: sign_in() has returned or raised.
\*   returned: the client is stored, the pending record popped.
\*   SessionPasswordNeededError: the first except clause matches; the
\*     handler sets the flag and awaits disconnect().
\*   any other exception: the second except clause names
\*     PhoneCodeInvalidError, which line 10 does not import, so evaluating
\*     the clause raises NameError; the clauses of lines 223 and 226 are
\*     never tried, the client is not disconnected, and the uncaught
\*     NameError is answered with status 500.
auth_confirm_signed(s) ==
    /\ proc[s].op = "auth_confirm" /\ proc[s].pc = "sign_in"
    /\ \E ret \in {"ok", "SessionPasswordNeededError", "PhoneCodeInvalidError", "FloodWaitError", "Exception"} :
        CASE ret = "ok" ->
               /\ ACTIVE_CLIENTS' = dict_set(ACTIVE_CLIENTS, proc[s].name, proc[s].client)
               /\ clients' = Stored(clients, proc[s].client, proc[s].name)
               /\ PENDING_AUTH' = dict_pop(PENDING_AUTH, proc[s].phone)
               /\ Complete(s, [proc[s] EXCEPT !.ret = ret], Return("signed_in", TRUE, proc[s].name, FALSE))
          [] ret = "SessionPasswordNeededError" ->
               /\ PENDING_AUTH' = set_needs_2fa(proc[s].phone, proc[s].info)
               /\ Suspend(s, [proc[s] EXCEPT !.pc = "disconnect", !.ret = ret])
               /\ UNCHANGED <<ACTIVE_CLIENTS, clients>>
          [] OTHER ->
               /\ Complete(s, [proc[s] EXCEPT !.ret = ret], Raise(500, "NameError"))
               /\ UNCHANGED <<ACTIVE_CLIENTS, PENDING_AUTH, clients>>

\* lines 218-219: disconnect() has returned; the handler returns the
\* "2FA required" result
auth_confirm_disconnected(s) ==
    /\ proc[s].op = "auth_confirm" /\ proc[s].pc = "disconnect"
    /\ clients' = Disconnected(clients, proc[s].client)
    /\ Complete(s, proc[s], Return("needs_2fa", FALSE, <<>>, TRUE))
    /\ UNCHANGED <<ACTIVE_CLIENTS, PENDING_AUTH>>

\* ------------------------------------------------------- auth_confirm_2fa
\* a faulty variant of confirm_2fa_guard: the check of line 236 is missing
confirm_2fa_guard_no_flag(phone) == IF ~has_key(PENDING_AUTH, phone) THEN "start_not_called" ELSE "pass"

\* lines 233-237: the two rejections of auth_confirm_2fa
confirm_2fa_guard(phone) == IF ~has_key(PENDING_AUTH, phone) THEN "start_not_called" ELSE IF ~PENDING_AUTH[phone].needs_2fa THEN "2fa_not_required" ELSE "pass"

\* lines 231-243: up to `await client.connect()`, or the 400 of line 235 or 237
auth_confirm_2fa(s) ==
    /\ proc[s].pc = "idle"
    /\ \E req_phone \in ConfirmPhones, req_name \in ReqNames :
        LET phone == _norm_phone(req_phone)
            info == dict_get(PENDING_AUTH, phone)
            r == [Idle EXCEPT !.op = "auth_confirm_2fa", !.req_name = req_name, !.phone = phone, !.info = info]
        IN
        IF confirm_2fa_guard(phone) # "pass"
        THEN /\ Complete(s, [r EXCEPT !.pc = "call"], Raise(400, confirm_2fa_guard(phone)))
             /\ UNCHANGED clients
        ELSE /\ CanConstruct
             /\ clients' = Constructed
             /\ Suspend(s, [r EXCEPT !.pc = "connect", !.name = resolved_name(req_name, info, phone), !.client = NewClient])
    /\ UNCHANGED <<ACTIVE_CLIENTS, PENDING_AUTH>>

\* lines 243-246: connect() has returned, up to `await client.sign_in(password=...)`
auth_confirm_2fa_connected(s) ==
    /\ proc[s].op = "auth_confirm_2fa" /\ proc[s].pc = "connect"
    /\ clients' = Connected(clients, proc[s].client)
    /\ Suspend(s, [proc[s] EXCEPT !.pc = "sign_in"])
    /\ UNCHANGED <<ACTIVE_CLIENTS, PENDING_AUTH>>

\* a faulty variant of auth_confirm_2fa_signed: the pending record is
\* popped on failure too
auth_confirm_2fa_signed_forgets(s) ==
    /\ proc[s].op = "auth_confirm_2fa" /\ proc[s].pc = "sign_in"
    /\ \E ret \in {"ok", "FloodWaitError", "Exception"} :
        IF ret = "ok"
        THEN /\ ACTIVE_CLIENTS' = dict_set(ACTIVE_CLIENTS, proc[s].name, proc[s].client)
             /\ clients' = Stored(clients, proc[s].client, proc[s].name)
             /\ PENDING_AUTH' = dict_pop(PENDING_AUTH, proc[s].phone)
             /\ Complete(s, [proc[s] EXCEPT !.ret = ret], Return("signed_in", TRUE, proc[s].name, FALSE))
        ELSE /\ Suspend(s, [proc[s] EXCEPT !.pc = "disconnect", !.ret = ret])
             /\ PENDING_AUTH' = dict_pop(PENDING_AUTH, proc[s].phone)
             /\ UNCHANGED <<ACTIVE_CLIENTS, clients>>

\* lines 246-255: sign_in() has returned (the client is stored, the pending
\* record popped) or raised (the handler awaits disconnect())
auth_confirm_2fa_signed(s) ==
    /\ proc[s].op = "auth_confirm_2fa" /\ proc[s].pc = "sign_in"
    /\ \E ret \in {"ok", "FloodWaitError", "Exception"} :
        IF ret = "ok"
        THEN /\ ACTIVE_CLIENTS' = dict_set(ACTIVE_CLIENTS, proc[s].name, proc[s].client)
             /\ clients' = Stored(clients, proc[s].client, proc[s].name)
             /\ PENDING_AUTH' = dict_pop(PENDING_AUTH, proc[s].phone)
             /\ Complete(s, [proc[s] EXCEPT !.ret = ret], Return("signed_in", TRUE, proc[s].name, FALSE))
        ELSE /\ Suspend(s, [proc[s] EXCEPT !.pc = "disconnect", !.ret = ret])
             /\ UNCHANGED <<ACTIVE_CLIENTS, PENDING_AUTH, clients>>

\* lines 250-255: disconnect() has returned; the handler raises 429 or 500
auth_confirm_2fa_disconnected(s) ==
    /\ proc[s].op = "auth_confirm_2fa" /\ proc[s].pc = "disconnect"
    /\ clients' = Disconnected(clients, proc[s].client)
    /\ Complete(s, proc[s], IF proc[s].ret = "FloodWaitError" THEN Raise(429, "flood_wait") ELSE Raise(500, "error"))
    /\ UNCHANGED <<ACTIVE_CLIENTS, PENDING_AUTH>>

\* ------------------------------------------------- target normalization
\* The values the normalization tells apart: a Python int is [int |-> n], a
\* str is [str |-> s], None is NoneValue; an exception raised while
\* normalizing is [error |-> its class].
IntValue(n) == [int |-> n]

StrValue(s) == [str |-> s]

NoneValue == [none |-> TRUE]

ValueError == [error |-> "ValueError"]

isinstance(x, type) == type \in DOMAIN x

Digits == {"0", "1", "2", "3", "4", "5", "6", "7", "8", "9"}

DigitValue(c) == CASE c = "0" -> 0 [] c = "1" -> 1 [] c = "2" -> 2 [] c = "3" -> 3 [] c = "4" -> 4 [] c = "5" -> 5 [] c = "6" -> 6 [] c = "7" -> 7 [] c = "8" -> 8 [] c = "9" -> 9

DigitChar(d) == CHOOSE c \in Digits : DigitValue(c) = d

\* str.isdigit(): not empty, decimal digits only
isdigit(s) == s # <<>> /\ \A i \in 1..Len(s) : s[i] \in Digits

\* str.startswith(prefix)
startswith(s, prefix) == Len(s) >= Len(prefix) /\ SubSeq(s, 1, Len(prefix)) = prefix

\* s[4:]
from4(s) == SubSeq(s, 5, Len(s))

\* str.lstrip("-"): every leading minus sign is taken off
RECURSIVE lstrip_minus(_)
lstrip_minus(s) == IF s # <<>> /\ Head(s) = "-" THEN lstrip_minus(Tail(s)) ELSE s

\* the value of a string of decimal digits (leading zeros allowed)
RECURSIVE int_of_digits(_)
int_of_digits(s) == IF s = <<>> THEN 0 ELSE 10 * int_of_digits(SubSeq(s, 1, Len(s) - 1)) + DigitValue(s[Len(s)])

\* int(s) of a str without surrounding whitespace: digits after at most
\* one sign; anything else (the empty string, two signs) raises ValueError
py_int(s) ==
    IF isdigit(s) THEN IntValue(int_of_digits(s))
    ELSE IF s # <<>> /\ Head(s) = "-" /\ isdigit(Tail(s)) THEN IntValue(0 - int_of_digits(Tail(s)))
    ELSE IF s # <<>> /\ Head(s) = "+" /\ isdigit(Tail(s)) THEN IntValue(int_of_digits(Tail(s)))
    ELSE ValueError

\* the decimal digits of n >= 0
RECURSIVE digits_of(_)
digits_of(n) == IF n < 10 THEN <<DigitChar(n)>> ELSE digits_of(n \div 10) \o <<DigitChar(n % 10)>>

\* str(n) of an int
py_str(n) == IF n < 0 THEN <<"-">> \o digits_of(0 - n) ELSE digits_of(n)

Minus100 == <<"-", "1", "0", "0">>

\* lines 318-325: the normalization of the target.  A str that is left a
\* str is left as it came (t, the stripped copy, is only looked at).
normalize_target(target) ==
    IF isinstance(target, "str")
    THEN LET t == strip(target.str) IN
         IF startswith(t, Minus100) /\ isdigit(from4(t)) THEN py_int(from4(t))
         ELSE IF isdigit(lstrip_minus(t)) THEN py_int(t)
         ELSE target
    ELSE IF isinstance(target, "int") /\ startswith(py_str(target.int), Minus100) THEN py_int(from4(py_str(target.int)))
    ELSE target

\* ---------------------------------------------------------------- dialogs
\* a faulty variant of _client_by_account: a name without a client is
\* given the first client constructed
_client_by_account_default(account) == IF has_key(ACTIVE_CLIENTS, account) THEN ACTIVE_CLIENTS[account] ELSE 1

\* lines 126-130: the client of the account; 0 stands for the
\* HTTPException(400) raised when the name has no client
_client_by_account(account) == IF has_key(ACTIVE_CLIENTS, account) THEN ACTIVE_CLIENTS[account] ELSE 0

\* A request of dialogs, export_members or send_message in a slot: req is
\* the request as it came, target the target export_members passes on.
OpsRequest(op, req) == [op |-> op, pc |-> "idle", req_name |-> req.account, phone |-> <<>>, name |-> req.account, client |-> 0, info |-> NoInfo, ret |-> "none", req |-> req, target |-> NoneValue]

\* The request of slot s completes: as Complete, the request being kept
\* beside its response.
Answer(s, r, resp) ==
    /\ proc' = [proc EXCEPT ![s] = Idle]
    /\ last' = [op |-> r.op, pc |-> r.pc, ret |-> r.ret, resp |-> resp, req |-> r.req]

\* the 200 response of dialogs: the list of dialog summaries
ReturnDialogs(dialogs_list) == [status |-> 200, kind |-> "dialogs", ok |-> TRUE, account |-> <<>>, needs_2fa |-> FALSE, dialogs |-> dialogs_list]

\* lines 260-265: up to the first await of `async for d in
\* client.iter_dialogs(...)`, or the 400 of _client_by_account
dialogs(s) ==
    /\ proc[s].pc = "idle"
    /\ \E account \in OpsAccounts :
        LET r == OpsRequest("dialogs", [account |-> account]) IN
        IF _client_by_account(account) = 0
        THEN Answer(s, [r EXCEPT !.pc = "call"], Raise(400, "account_not_found"))
        ELSE Suspend(s, [r EXCEPT !.pc = "iter_dialogs", !.client = _client_by_account(account)])
    /\ UNCHANGED <<ACTIVE_CLIENTS, PENDING_AUTH, clients>>

\* lines 265-300: the iteration has ended without a dialog (the empty list
\* is returned), has yielded its first dialog, or has raised.  For the
\* first dialog line 271 evaluates `User`, which line 10 and the other
\* imports do not bind: the NameError is caught by `except Exception` and
\* the request is answered 500.
dialogs_iterated(s) ==
    /\ proc[s].op = "dialogs" /\ proc[s].pc = "iter_dialogs"
    /\ \E ret \in {"empty", "dialog", "FloodWaitError", "Exception"} :
        Answer(s, [proc[s] EXCEPT !.ret = ret],
            CASE ret = "empty" -> ReturnDialogs(<<>>)
              [] ret = "FloodWaitError" -> Raise(429, "flood_wait")
              [] OTHER -> Raise(500, "error"))
    /\ UNCHANGED <<ACTIVE_CLIENTS, PENDING_AUTH, clients>>

\* --------------------------------------------------------- export_members
\* The participants get_participants may answer with: none, or u1..u4 in
\* the library's order, u1 being an administrator.
Participants == {<<>>, <<[id |-> 1, admin_rights |-> TRUE], [id |-> 2, admin_rights |-> FALSE], [id |-> 3, admin_rights |-> FALSE], [id |-> 4, admin_rights |-> FALSE]>>}

\* lines 350-367: the member record of a participant
member_data(p) == [id |-> p.id, is_admin |-> p.admin_rights]

\* lines 331-368: one member record per participant, in their order
members_of(participants) == [i \in 1..Len(participants) |-> member_data(participants[i])]

\* line 370: the 200 response of export_members
ReturnMembers(members) == [status |-> 200, kind |-> "members", ok |-> TRUE, account |-> <<>>, needs_2fa |-> FALSE, count |-> Len(members), members |-> members]

\* A request body of export_members without its account.  ExportMembersReq
\* (lines 55-60) declares account, group and chat_id; limit and offset are
\* fields of the body that the model class does not declare and the
\* handler never reads.
Body(group, chat_id, limit, offset) == [group |-> group, chat_id |-> chat_id, limit |-> limit, offset |-> offset]

\* The request bodies of export_members served beside the other handlers:
\* no target at all (neither field, or an empty group), a username, and a
\* chat_id without and with the limit and offset a caller may send along.
ExportBodies == {
    Body(NoneValue, NoneValue, 0, 0),
    Body(StrValue(<<>>), NoneValue, 0, 0),
    Body(StrValue(<<"s", "o", "m", "e", "_", "g", "r", "o", "u", "p">>), NoneValue, 0, 0),
    Body(NoneValue, IntValue(1450445959), 0, 0),
    Body(NoneValue, IntValue(1450445959), 2, 1) }

\* The request bodies that exercise the normalization: every str and int
\* as group, every int as chat_id, alone or beside a group.
TargetBodies ==
    {Body(StrValue(g), NoneValue, 0, 0) : g \in GroupStrings}
    \cup {Body(IntValue(n), NoneValue, 0, 0) : n \in TargetInts}
    \cup {Body(g, IntValue(n), 0, 0) : g \in {NoneValue, StrValue(<<"-", "1", "0", "0", "7">>)}, n \in TargetInts}

\* line 313: target = req.chat_id if req.chat_id is not None else req.group
chosen_target(body) == IF body.chat_id # NoneValue THEN body.chat_id ELSE body.group

\* line 314: target is None or target == ""
missing_target(target) == target = NoneValue \/ target = StrValue(<<>>)

\* lines 305-328: up to `await client.get_entity(target)`; or the 400 of
\* line 308; or the HTTPException(422) of line 315 or the ValueError of
\* int(), both raised inside the try and caught by `except Exception`
\* (line 376), which answers 500
export_members_call(s, bodies) ==
    /\ proc[s].pc = "idle"
    /\ \E account \in OpsAccounts, body \in bodies :
        LET r == OpsRequest("export_members", [account |-> account, body |-> body])
            target == chosen_target(body)
        IN
        IF ~has_key(ACTIVE_CLIENTS, account)
        THEN Answer(s, [r EXCEPT !.pc = "call"], Raise(400, "account_not_found"))
        ELSE IF missing_target(target)
        THEN Answer(s, [r EXCEPT !.pc = "call", !.client = ACTIVE_CLIENTS[account], !.ret = "HTTPException"], Raise(500, "error"))
        ELSE IF normalize_target(target) = ValueError
        THEN Answer(s, [r EXCEPT !.pc = "call", !.client = ACTIVE_CLIENTS[account], !.ret = "ValueError"], Raise(500, "error"))
        ELSE Suspend(s, [r EXCEPT !.pc = "get_entity", !.client = ACTIVE_CLIENTS[account], !.target = normalize_target(target)])
    /\ UNCHANGED <<ACTIVE_CLIENTS, PENDING_AUTH, clients>>

\* export_members, asked with the bodies served beside the other handlers
export_members(s) == export_members_call(s, ExportBodies)

\* export_members, asked with the bodies that exercise the normalization
export_members_target(s) == export_members_call(s, TargetBodies)

\* what the except clauses of lines 372-377 answer
export_error(ret) ==
    CASE ret = "UserPrivacyRestrictedError" -> Raise(403, "privacy")
      [] ret = "FloodWaitError" -> Raise(429, "flood_wait")
      [] OTHER -> Raise(500, "error")

\* lines 328-329: get_entity() has returned, up to `await
\* client.get_participants(...)`, or has raised
export_members_resolved(s) ==
    /\ proc[s].op = "export_members" /\ proc[s].pc = "get_entity"
    /\ \E ret \in {"ok", "UserPrivacyRestrictedError", "FloodWaitError", "Exception"} :
        IF ret = "ok"
        THEN Suspend(s, [proc[s] EXCEPT !.pc = "get_participants"])
        ELSE Answer(s, [proc[s] EXCEPT !.ret = ret], export_error(ret))
    /\ UNCHANGED <<ACTIVE_CLIENTS, PENDING_AUTH, clients>>

\* lines 329-377: get_participants() has returned (every participant
\* becomes a member record of the response) or has raised
export_members_listed(s) ==
    /\ proc[s].op = "export_members" /\ proc[s].pc = "get_participants"
    /\ \/ \E participants \in Participants :
            Answer(s, [proc[s] EXCEPT !.ret = "ok"], ReturnMembers(members_of(participants)))
       \/ \E ret \in {"UserPrivacyRestrictedError", "FloodWaitError", "Exception"} :
            Answer(s, [proc[s] EXCEPT !.ret = ret], export_error(ret))
    /\ UNCHANGED <<ACTIVE_CLIENTS, PENDING_AUTH, clients>>

\* ----------------------------------------------------------- send_message
\* lines 382-385: up to `await client.get_entity(req.chat_id)`, or the 400
\* of _client_by_account
send_message(s) ==
    /\ proc[s].pc = "idle"
    /\ \E account \in OpsAccounts :
        LET r == OpsRequest("send_message", [account |-> account]) IN
        IF _client_by_account(account) = 0
        THEN Answer(s, [r EXCEPT !.pc = "call"], Raise(400, "account_not_found"))
        ELSE Suspend(s, [r EXCEPT !.pc = "get_entity", !.client = _client_by_account(account)])
    /\ UNCHANGED <<ACTIVE_CLIENTS, PENDING_AUTH, clients>>

\* what the except clauses of lines 388-391 answer
send_error(ret) == IF ret = "FloodWaitError" THEN Raise(429, "flood_wait") ELSE Raise(500, "error")

\* lines 385-386: get_entity() has returned, up to `await
\* client.send_message(...)`, or has raised
send_message_resolved(s) ==
    /\ proc[s].op = "send_message" /\ proc[s].pc = "get_entity"
    /\ \E ret \in {"ok", "FloodWaitError", "Exception"} :
        IF ret = "ok"
        THEN Suspend(s, [proc[s] EXCEPT !.pc = "send_message"])
        ELSE Answer(s, [proc[s] EXCEPT !.ret = ret], send_error(ret))
    /\ UNCHANGED <<ACTIVE_CLIENTS, PENDING_AUTH, clients>>

\* lines 386-391: send_message() has returned or raised
send_message_sent(s) ==
    /\ proc[s].op = "send_message" /\ proc[s].pc = "send_message"
    /\ \E ret \in {"ok", "FloodWaitError", "Exception"} :
        Answer(s, [proc[s] EXCEPT !.ret = ret], IF ret = "ok" THEN Return("sent", TRUE, <<>>, FALSE) ELSE send_error(ret))
    /\ UNCHANGED <<ACTIVE_CLIENTS, PENDING_AUTH, clients>>

\* --------------------------------------------------------------- shutdown
\* The service is serving requests: the code after `yield` in lifespan has
\* not run.
Running == last.op # "lifespan"

\* lines 111-114: the code after `yield`, run once at shutdown when no
\* request is in flight.  It is a comment: nothing is disconnected and
\* ACTIVE_CLIENTS is not touched.
lifespan_shutdown ==
    /\ Running
    /\ \A s \in Procs : proc[s].pc = "idle"
    /\ last' = [op |-> "lifespan", pc |-> "shutdown", ret |-> "none", resp |-> NoResp]
    /\ UNCHANGED <<ACTIVE_CLIENTS, PENDING_AUTH, clients, proc>>

\* ------------------------------------------------------ the specification
Next ==
    \E s \in Procs :
        \/ add_account(s)
        \/ add_account_connected(s)
        \/ add_account_checked(s)
        \/ add_account_disconnected(s)
        \/ remove_account(s)
        \/ remove_account_disconnected(s)
        \/ auth_start(s)
        \/ auth_start_connected(s)
        \/ auth_start_sent(s)
        \/ auth_start_disconnected(s)
        \/ auth_confirm(s)
        \/ auth_confirm_connected(s)
        \/ auth_confirm_signed(s)
        \/ auth_confirm_disconnected(s)
        \/ auth_confirm_2fa(s)
        \/ auth_confirm_2fa_connected(s)
        \/ auth_confirm_2fa_signed(s)
        \/ auth_confirm_2fa_disconnected(s)

Spec == Init /\ [][Next]_vars

\* The service without the login flow: accounts are added and removed
\* (requests of slot 1) while dialogs, export_members and send_message are
\* served (requests of slot 2), until the process shuts down.  Two account
\* requests at a time are the subject of Spec; requests of the three other
\* handlers write no shared state.
InitOps == Init

NextOps ==
    \/ /\ Running
       /\ \/ add_account(1)
          \/ add_account_connected(1)
          \/ add_account_checked(1)
          \/ add_account_disconnected(1)
          \/ remove_account(1)
          \/ remove_account_disconnected(1)
          \/ dialogs(2)
          \/ dialogs_iterated(2)
          \/ export_members(2)
          \/ export_members_resolved(2)
          \/ export_members_listed(2)
          \/ send_message(2)
          \/ send_message_resolved(2)
          \/ send_message_sent(2)
    \/ lifespan_shutdown

SpecOps == InitOps /\ [][NextOps]_vars

\* The whole service, one request at a time: every handler, each request
\* running from await to await until it ends.
InitFrame == Init

NextFrame ==
    \/ add_account(1)
    \/ add_account_connected(1)
    \/ add_account_checked(1)
    \/ add_account_disconnected(1)
    \/ remove_account(1)
    \/ remove_account_disconnected(1)
    \/ auth_start(1)
    \/ auth_start_connected(1)
    \/ auth_start_sent(1)
    \/ auth_start_disconnected(1)
    \/ auth_confirm(1)
    \/ auth_confirm_connected(1)
    \/ auth_confirm_signed(1)
    \/ auth_confirm_disconnected(1)
    \/ auth_confirm_2fa(1)
    \/ auth_confirm_2fa_connected(1)
    \/ auth_confirm_2fa_signed(1)
    \/ auth_confirm_2fa_disconnected(1)
    \/ dialogs(1)
    \/ dialogs_iterated(1)
    \/ export_members(1)
    \/ export_members_resolved(1)
    \/ export_members_listed(1)
    \/ send_message(1)
    \/ send_message_resolved(1)
    \/ send_message_sent(1)

SpecFrame == InitFrame /\ [][NextFrame]_vars

\* export_members alone, one request after the other, with the account "a"
\* added: the initial state is the state after add_account("a") has
\* returned.
InitTargets ==
    /\ ACTIVE_CLIENTS = dict_set(<<>>, <<"a">>, 1)
    /\ PENDING_AUTH = <<>>
    /\ clients = <<[status |-> "open", key |-> <<"a">>]>>
    /\ proc = [s \in Procs |-> Idle]
    /\ last = [op |-> "add_account", pc |-> "is_user_authorized", ret |-> "authorized", resp |-> Return("added", TRUE, <<>>, FALSE)]

NextTargets ==
    \/ export_members_target(1)
    \/ export_members_resolved(1)
    \/ export_members_listed(1)

SpecTargets == InitTargets /\ [][NextTargets]_vars

\* -------------------------------------------------------------- the claims
\* The request of slot s is put in flight by this step (it reaches its
\* first await), completes in this step, or runs from one await to another.
Starts(s, op) == proc[s].pc = "idle" /\ proc'[s].pc # "idle" /\ proc'[s].op = op

Ends(s, op, pc) == proc[s].op = op /\ proc[s].pc = pc /\ proc'[s].pc = "idle"

Moves(s, op, from, to) == proc[s].op = op /\ proc[s].pc = from /\ proc'[s].pc = to

\* A request of handler op completes in this step without having awaited.
EndsAtCall(op) == last' # last /\ last'.op = op /\ last'.pc = "call"

\* d2 is d1 with key k taken out and nothing else changed.
Without(d1, d2, k) == DOMAIN d2 = DOMAIN d1 \ {k} /\ \A x \in DOMAIN d2 : d2[x] = d1[x]

\* d2 is d1 except, possibly, at key k.
SameButAt(d1, d2, k) == DOMAIN d2 \ {k} = DOMAIN d1 \ {k} /\ \A x \in DOMAIN d2 \ {k} : d2[x] = d1[x]

\* C1: when sign_in succeeds in auth_confirm or auth_confirm_2fa, the
\* client is stored in ACTIVE_CLIENTS under the request's name if it gives
\* one, else under the name the pending record holds, else under the phone;
\* the phone has no pending record afterwards; the response is the 200
\* result carrying that account name.
C1_SignInPromotes ==
    [][\A s \in Procs :
        (\E op \in {"auth_confirm", "auth_confirm_2fa"} : Ends(s, op, "sign_in") /\ last'.ret = "ok")
        => LET r == proc[s]
               name == IF r.req_name # <<>> THEN r.req_name ELSE IF r.info.name # <<>> THEN r.info.name ELSE r.phone
           IN /\ name \in DOMAIN ACTIVE_CLIENTS'
              /\ ACTIVE_CLIENTS'[name] = r.client
              /\ SameButAt(ACTIVE_CLIENTS, ACTIVE_CLIENTS', name)
              /\ r.phone \notin DOMAIN PENDING_AUTH'
              /\ last'.resp.status = 200
              /\ last'.resp.ok
              /\ last'.resp.account = name]_vars

\* C1 witness: auth_confirm_2fa has just signed in the login of "+1" that
\* was started without a name and confirmed under the name "a".
C1_Witness ==
    /\ last.op = "auth_confirm_2fa"
    /\ last.ret = "ok"
    /\ last.resp.account = <<"a">>
    /\ <<"a">> \in DOMAIN ACTIVE_CLIENTS
    /\ clients[ACTIVE_CLIENTS[<<"a">>]].status = "open"
    /\ <<"+", "1">> \notin DOMAIN PENDING_AUTH

\* C2 (as claimed): when auth_confirm ends after the library reported the
\* second-factor requirement, the phone still has its pending record and
\* the record's needs_2fa is true, the client is closed, ACTIVE_CLIENTS is
\* as it was and the response is the 200 result with needs_2fa = true.
C2_Claimed ==
    [][\A s \in Procs :
        /\ Moves(s, "auth_confirm", "sign_in", "disconnect")
           => /\ proc[s].phone \in DOMAIN PENDING_AUTH'
              /\ PENDING_AUTH'[proc[s].phone].needs_2fa
              /\ ACTIVE_CLIENTS' = ACTIVE_CLIENTS
        /\ Ends(s, "auth_confirm", "disconnect")
           => /\ proc[s].phone \in DOMAIN PENDING_AUTH'
              /\ PENDING_AUTH'[proc[s].phone].needs_2fa
              /\ clients'[proc[s].client].status = "closed"
              /\ ACTIVE_CLIENTS' = ACTIVE_CLIENTS
              /\ last'.resp.status = 200
              /\ last'.resp.needs_2fa]_vars

\* C3 (as claimed): when sign_in raises PhoneCodeInvalidError or
\* FloodWaitError in auth_confirm, the client is closed, the response is
\* 400 or 429, and ACTIVE_CLIENTS and PENDING_AUTH are as they were.
C3_Claimed ==
    [][\A s \in Procs :
        (proc[s].op = "auth_confirm" /\ proc'[s].pc = "idle" /\ last'.ret \in {"PhoneCodeInvalidError", "FloodWaitError"})
        => /\ clients'[proc[s].client].status = "closed"
           /\ last'.resp.status = IF last'.ret = "PhoneCodeInvalidError" THEN 400 ELSE 429
           /\ ACTIVE_CLIENTS' = ACTIVE_CLIENTS
           /\ PENDING_AUTH' = PENDING_AUTH]_vars

\* The phones auth_confirm and auth_confirm_2fa are asked about.
ConfirmedPhones == {_norm_phone(p) : p \in ConfirmPhones}

\* C4: auth_confirm goes on to open a connection only for a phone with a
\* pending record, auth_confirm_2fa only for a phone whose pending record
\* has needs_2fa true; a request that does not go on is answered 400
\* "start not called" (no pending record) or "2FA not required" (flag
\* false) and changes nothing; and a record's flag becomes true only when
\* an auth_confirm for its phone gets the second-factor report.
C4_ConfirmGuards ==
    [][/\ \A s \in Procs :
            /\ Starts(s, "auth_confirm") => proc'[s].phone \in DOMAIN PENDING_AUTH
            /\ Starts(s, "auth_confirm_2fa")
               => /\ proc'[s].phone \in DOMAIN PENDING_AUTH
                  /\ PENDING_AUTH[proc'[s].phone].needs_2fa
                  /\ proc'[s].info = PENDING_AUTH[proc'[s].phone]
            /\ Ends(s, "auth_confirm_2fa", "sign_in") /\ last'.ret = "ok" => proc[s].info.needs_2fa
       /\ EndsAtCall("auth_confirm")
            => /\ last'.resp = Raise(400, "start_not_called")
               /\ \E q \in ConfirmedPhones : q \notin DOMAIN PENDING_AUTH
               /\ UNCHANGED <<ACTIVE_CLIENTS, PENDING_AUTH, clients, proc>>
       /\ EndsAtCall("auth_confirm_2fa")
            => /\ \/ /\ last'.resp = Raise(400, "start_not_called")
                     /\ \E q \in ConfirmedPhones : q \notin DOMAIN PENDING_AUTH
                  \/ /\ last'.resp = Raise(400, "2fa_not_required")
                     /\ \E q \in ConfirmedPhones : q \in DOMAIN PENDING_AUTH /\ ~PENDING_AUTH[q].needs_2fa
               /\ UNCHANGED <<ACTIVE_CLIENTS, PENDING_AUTH, clients, proc>>
       /\ \A q \in DOMAIN PENDING_AUTH' :
            (PENDING_AUTH'[q].needs_2fa /\ ~(q \in DOMAIN PENDING_AUTH /\ PENDING_AUTH[q].needs_2fa))
            => \E s \in Procs : Moves(s, "auth_confirm", "sign_in", "disconnect") /\ proc[s].phone = q /\ proc'[s].ret = "SessionPasswordNeededError"]_vars

\* C4 witness: auth_confirm_2fa has just been refused with "2FA not
\* required" for a started login whose flag is false.
C4_Witness ==
    /\ last.op = "auth_confirm_2fa"
    /\ last.pc = "call"
    /\ last.resp = Raise(400, "2fa_not_required")
    /\ <<"+", "1">> \in DOMAIN PENDING_AUTH
    /\ ~PENDING_AUTH[<<"+", "1">>].needs_2fa

\* C5 (as claimed): auth_confirm for a phone whose pending record has
\* needs_2fa true opens no connection and is answered with a 400 error,
\* and the record's flag stays true.
C5_Claimed ==
    [][\A s \in Procs :
        /\ Starts(s, "auth_confirm") => ~PENDING_AUTH[proc'[s].phone].needs_2fa
        /\ (proc[s].op = "auth_confirm" /\ proc[s].info.needs_2fa /\ proc'[s].pc = "idle")
           => /\ last'.resp.status = 400
              /\ proc[s].phone \in DOMAIN PENDING_AUTH'
              /\ PENDING_AUTH'[proc[s].phone].needs_2fa]_vars

\* C6: every key of PENDING_AUTH is a normalized phone ("1", "+1" and "+1 "
\* are the one key "+1"), and when send_code_request succeeds in auth_start
\* the phone's record is a new one: the session and the handle of this
\* request's client, needs_2fa false, the name of this request (else the
\* phone); the records of the other phones are as they were.
C6_StartReplaces ==
    [][/\ DOMAIN PENDING_AUTH' \subseteq {<<"+", "1">>, <<"+", "2">>}
       /\ \A s \in Procs :
            (Moves(s, "auth_start", "send_code_request", "disconnect") /\ proc'[s].ret = "ok")
            => LET r == proc[s] IN
               /\ r.phone \in DOMAIN PENDING_AUTH'
               /\ PENDING_AUTH'[r.phone].needs_2fa = FALSE
               /\ PENDING_AUTH'[r.phone].name = (IF r.req_name # <<>> THEN r.req_name ELSE r.phone)
               /\ PENDING_AUTH'[r.phone].session_str = r.client
               /\ PENDING_AUTH'[r.phone].phone_code_hash = r.client
               /\ \A q \in DOMAIN PENDING_AUTH :
                    /\ PENDING_AUTH[q].session_str # r.client
                    /\ PENDING_AUTH[q].phone_code_hash # r.client
                    /\ PENDING_AUTH[q].ref # PENDING_AUTH'[r.phone].ref
               /\ SameButAt(PENDING_AUTH, PENDING_AUTH', r.phone)]_vars

\* C6 witness: a second auth_start for "+1" has just replaced the record
\* that the first one stored and that an auth_confirm had flagged.
C6_Witness ==
    \E s \in Procs :
        /\ proc[s].op = "auth_start" /\ proc[s].pc = "disconnect" /\ proc[s].ret = "ok"
        /\ proc[s].phone = <<"+", "1">>
        /\ last.op = "auth_confirm" /\ last.resp.needs_2fa
        /\ clients[1].status = "closed"
        /\ PENDING_AUTH[<<"+", "1">>].ref = proc[s].client
        /\ ~PENDING_AUTH[<<"+", "1">>].needs_2fa

\* C7 (as claimed): no two open clients have been stored under one name.
C7_Claimed ==
    \A c1, c2 \in DOMAIN clients :
        (c1 # c2 /\ clients[c1].key # <<>> /\ clients[c1].key = clients[c2].key)
        => ~(clients[c1].status = "open" /\ clients[c2].status = "open")

\* C8: add_account goes on to construct a client only for a name that is
\* not a key of ACTIVE_CLIENTS; for a name that is one it returns the 200
\* result at once and changes nothing.
C8_AddExistingIsNoOp ==
    [][/\ \A s \in Procs :
            Starts(s, "add_account")
            => /\ proc'[s].name \notin DOMAIN ACTIVE_CLIENTS
               /\ Len(clients') = Len(clients) + 1
       /\ EndsAtCall("add_account")
            => /\ \E n \in AccountNames : n \in DOMAIN ACTIVE_CLIENTS
               /\ last'.resp.status = 200
               /\ last'.resp.ok
               /\ UNCHANGED <<ACTIVE_CLIENTS, PENDING_AUTH, clients, proc>>]_vars

\* C8 witness: add_account("a") has just returned at once, "a" and another
\* account being in ACTIVE_CLIENTS.
C8_Witness ==
    /\ last.op = "add_account"
    /\ last.pc = "call"
    /\ last.resp.ok
    /\ <<"a">> \in DOMAIN ACTIVE_CLIENTS
    /\ Cardinality(DOMAIN ACTIVE_CLIENTS) >= 2

\* C9: when is_user_authorized answers false in add_account, no step of the
\* request changes ACTIVE_CLIENTS, and the request ends with its client
\* closed and the 401 response.
C9_UnauthorizedAdd ==
    [][\A s \in Procs :
        /\ (proc[s].op = "add_account" /\ proc[s].pc = "is_user_authorized" /\ proc'[s].ret = "unauthorized")
           => /\ proc'[s].pc = "disconnect"
              /\ ACTIVE_CLIENTS' = ACTIVE_CLIENTS
        /\ (proc[s].op = "add_account" /\ proc'[s].pc = "idle" /\ last'.ret = "unauthorized")
           => /\ clients'[proc[s].client].status = "closed"
              /\ last'.resp = Raise(401, "unauthorized")
              /\ ACTIVE_CLIENTS' = ACTIVE_CLIENTS]_vars

\* C9 witness: add_account has just been refused with 401 while another
\* account is in ACTIVE_CLIENTS.
C9_Witness ==
    /\ last.op = "add_account"
    /\ last.ret = "unauthorized"
    /\ last.resp.status = 401
    /\ DOMAIN ACTIVE_CLIENTS # {}

\* C10: remove_account is always answered with the 200 result.  For a name
\* that is no key of ACTIVE_CLIENTS it changes nothing.  For a name that is
\* one it awaits disconnect() on the name's client and then, whether
\* disconnect() returned or raised and whether or not the name is still a
\* key, leaves ACTIVE_CLIENTS without the name and with every other entry
\* as it was.
C10_RemoveIdempotent ==
    [][/\ \A s \in Procs :
            /\ Starts(s, "remove_account")
               => /\ proc'[s].name \in DOMAIN ACTIVE_CLIENTS
                  /\ proc'[s].client = ACTIVE_CLIENTS[proc'[s].name]
                  /\ UNCHANGED <<ACTIVE_CLIENTS, PENDING_AUTH, clients>>
            /\ Ends(s, "remove_account", "disconnect")
               => /\ Without(ACTIVE_CLIENTS, ACTIVE_CLIENTS', proc[s].name)
                  /\ clients'[proc[s].client].status \in {"closed", "closefailed"}
                  /\ (last'.ret = "ok" => clients'[proc[s].client].status = "closed")
                  /\ last'.resp.status = 200
                  /\ last'.resp.ok
                  /\ PENDING_AUTH' = PENDING_AUTH
       /\ EndsAtCall("remove_account")
            => /\ \E n \in AccountNames : n \notin DOMAIN ACTIVE_CLIENTS
               /\ last'.resp.status = 200
               /\ last'.resp.ok
               /\ UNCHANGED <<ACTIVE_CLIENTS, PENDING_AUTH, clients, proc>>]_vars

\* C10 witness: of two removals of "a" suspended in disconnect() at the
\* same time, the first has ended, its disconnect() having raised, and has
\* removed the name; the second is still to end.
C10_Witness ==
    /\ last.op = "remove_account"
    /\ last.ret = "Exception"
    /\ last.resp.ok
    /\ <<"a">> \notin DOMAIN ACTIVE_CLIENTS
    /\ DOMAIN ACTIVE_CLIENTS # {}
    /\ \E s \in Procs : proc[s].op = "remove_account" /\ proc[s].pc = "disconnect" /\ proc[s].name = <<"a">>

\* The handlers that only use a stored client.
OpsHandlers == {"dialogs", "export_members", "send_message"}

\* C11 (as claimed): the step that shuts the process down leaves
\* ACTIVE_CLIENTS empty and none of the clients that were in it open.
C11_Claimed ==
    [][(Running /\ ~Running')
        => /\ ACTIVE_CLIENTS' = <<>>
           /\ \A n \in DOMAIN ACTIVE_CLIENTS : clients'[ACTIVE_CLIENTS[n]].status # "open"]_vars

\* C12 (as claimed): an export_members request whose body has neither
\* group nor chat_id (or an empty group) ends without having awaited a
\* library call, with a 4xx status that is not the account-not-found
\* answer of the account lookup.
C12_Claimed ==
    [][(last' # last /\ last'.op = "export_members" /\ missing_target(chosen_target(last'.req.body)))
        => /\ last'.pc = "call"
           /\ last'.resp.status \in 400..499
           /\ last'.resp.kind # "account_not_found"]_vars

\* C13: dialogs, export_members and send_message go on to a library call
\* only for an account that is a key of ACTIVE_CLIENTS, and with that
\* account's client; a request naming an account that is no key ends
\* without having awaited, with the 400 account-not-found answer, and
\* changes neither ACTIVE_CLIENTS nor PENDING_AUTH nor any client.
C13_AccountNotFound ==
    [][/\ \A s \in Procs : \A op \in OpsHandlers :
            Starts(s, op)
            => /\ proc'[s].req.account \in DOMAIN ACTIVE_CLIENTS
               /\ proc'[s].client = ACTIVE_CLIENTS[proc'[s].req.account]
               /\ UNCHANGED <<ACTIVE_CLIENTS, PENDING_AUTH, clients>>
       /\ \A op \in OpsHandlers :
            (EndsAtCall(op) /\ last'.req.account \notin DOMAIN ACTIVE_CLIENTS)
            => /\ last'.resp = Raise(400, "account_not_found")
               /\ UNCHANGED <<ACTIVE_CLIENTS, PENDING_AUTH, clients, proc>>]_vars

\* C13 witness: dialogs for "b" has just been refused with the 400 while
\* "a" has its client and a removal of "a" is awaiting disconnect().
C13_Witness ==
    /\ last.op = "dialogs"
    /\ last.pc = "call"
    /\ last.req.account = <<"b">>
    /\ last.resp = Raise(400, "account_not_found")
    /\ <<"a">> \in DOMAIN ACTIVE_CLIENTS
    /\ \E s \in Procs : proc[s].op = "remove_account" /\ proc[s].pc = "disconnect"

\* C14 (as claimed): a request whose library call raised FloodWaitError
\* makes no further library call other than disconnect(), and is answered
\* with the 429 "flood wait" error.
C14_Claimed ==
    [][\A s \in Procs :
        /\ (proc[s].pc # "idle" /\ proc'[s].pc # "idle" /\ proc'[s].ret = "FloodWaitError")
           => proc'[s].pc = "disconnect"
        /\ (proc[s].pc # "idle" /\ proc'[s].pc = "idle" /\ last'.ret = "FloodWaitError")
           => last'.resp = Raise(429, "flood_wait")]_vars

\* C17 (as claimed): the member records of a successful export_members are
\* at most limit (when limit is not 0), and none of them is one of the
\* offset leading participants; u1..u4 have the ids 1..4 in the library's
\* order.
C17_Claimed ==
    [][\A s \in Procs :
        (Ends(s, "export_members", "get_participants") /\ last'.ret = "ok")
        => LET body == proc[s].req.body
               members == last'.resp.members
           IN /\ body.limit > 0 => Len(members) <= body.limit
              /\ \A i \in 1..Len(members) : members[i].id > body.offset]_vars

\* The "-100" prefix of the decimal form of an int taken off, as the
\* specification's algorithm takes it off: the digits that follow it are
\* the result; an int without the prefix, or with nothing after it, is
\* left as it is.
strip_marker(n) == IF startswith(py_str(n), Minus100) /\ isdigit(from4(py_str(n))) THEN IntValue(int_of_digits(from4(py_str(n)))) ELSE IntValue(n)

\* The four steps of the specification's algorithm, whitespace around a
\* str being ignored as the handler ignores it.
four_step_algorithm(raw) ==
    IF isinstance(raw, "str")
    THEN LET t == strip(raw.str) IN
         IF startswith(t, Minus100) /\ isdigit(from4(t)) THEN IntValue(int_of_digits(from4(t)))
         ELSE IF isdigit(t) THEN strip_marker(int_of_digits(t))
         ELSE IF t # <<>> /\ Head(t) = "-" /\ isdigit(Tail(t)) THEN strip_marker(0 - int_of_digits(Tail(t)))
         ELSE raw
    ELSE strip_marker(raw.int)

\* C15 (as claimed): an export_members request for a known account with a
\* target always reaches get_entity, and the target it passes is the result
\* of the specification's four-step algorithm for the target of the body.
C15_Claimed ==
    [][/\ \A s \in Procs :
            Starts(s, "export_members")
            => proc'[s].target = four_step_algorithm(chosen_target(proc'[s].req.body))
       /\ (EndsAtCall("export_members") /\ last'.req.account \in DOMAIN ACTIVE_CLIENTS)
            => missing_target(chosen_target(last'.req.body))]_vars

\* C16 (as claimed): the target export_members passes to get_entity is a
\* fixed point of the normalization: normalizing it again raises nothing
\* and gives the same target.
C16_Claimed ==
    [][\A s \in Procs :
        Starts(s, "export_members")
        => normalize_target(proc'[s].target) = proc'[s].target]_vars

\* C18: when sign_in raises in auth_confirm_2fa the request awaits
\* disconnect() and then ends with its client closed and never stored,
\* answered 429 (rate limit) or 500 (any other error); neither step changes
\* ACTIVE_CLIENTS or PENDING_AUTH, and the record the request read is, as
\* long as it is the phone's record, as it was read, needs_2fa true.
C18_SecondFactorFailure ==
    [][\A s \in Procs :
        /\ (proc[s].op = "auth_confirm_2fa" /\ proc[s].pc = "sign_in" /\ proc'[s].pc = "idle")
           => last'.ret = "ok"
        /\ Moves(s, "auth_confirm_2fa", "sign_in", "disconnect")
           => /\ proc'[s].ret \in {"FloodWaitError", "Exception"}
              /\ UNCHANGED <<ACTIVE_CLIENTS, PENDING_AUTH, clients>>
        /\ Ends(s, "auth_confirm_2fa", "disconnect")
           => LET r == proc[s] IN
              /\ last'.ret \in {"FloodWaitError", "Exception"}
              /\ last'.resp = (IF last'.ret = "FloodWaitError" THEN Raise(429, "flood_wait") ELSE Raise(500, "error"))
              /\ clients'[r.client] = [status |-> "closed", key |-> <<>>]
              /\ \A n \in DOMAIN ACTIVE_CLIENTS' : ACTIVE_CLIENTS'[n] # r.client
              /\ UNCHANGED <<ACTIVE_CLIENTS, PENDING_AUTH>>
              /\ r.info.needs_2fa
              /\ (r.phone \in DOMAIN PENDING_AUTH' /\ PENDING_AUTH'[r.phone].ref = r.info.ref)
                 => PENDING_AUTH'[r.phone] = r.info]_vars

\* C18 witness: auth_confirm_2fa for "+1" has just ended with the 429, and
\* the record of "+1" is still there with needs_2fa true.
C18_Witness ==
    /\ last.op = "auth_confirm_2fa"
    /\ last.ret = "FloodWaitError"
    /\ last.resp.status = 429
    /\ <<"+", "1">> \in DOMAIN PENDING_AUTH
    /\ PENDING_AUTH[<<"+", "1">>].needs_2fa
    /\ clients[Len(clients)].status = "closed"

\* C19: an auth_start request ends only from its await of disconnect(), on
\* the success path and after each of the three failures, with its client
\* closed; its client is at no time a value of ACTIVE_CLIENTS or stored
\* under a name; on success the phone's record holds the session of that
\* client, on failure PENDING_AUTH is as it was; and the session of every
\* pending record is that of a client that was never stored.
C19_TemporaryConnection ==
    [][/\ \A s \in Procs :
            /\ (proc[s].op = "auth_start" /\ proc'[s].pc = "idle")
               => /\ proc[s].pc = "disconnect"
                  /\ last'.ret \in {"ok", "PhoneNumberInvalidError", "FloodWaitError", "Exception"}
                  /\ clients'[proc[s].client] = [status |-> "closed", key |-> <<>>]
                  /\ \A n \in DOMAIN ACTIVE_CLIENTS' : ACTIVE_CLIENTS'[n] # proc[s].client
            /\ proc'[s].op = "auth_start"
               => /\ clients'[proc'[s].client].key = <<>>
                  /\ \A n \in DOMAIN ACTIVE_CLIENTS' : ACTIVE_CLIENTS'[n] # proc'[s].client
            /\ Moves(s, "auth_start", "send_code_request", "disconnect")
               => IF proc'[s].ret = "ok"
                  THEN PENDING_AUTH'[proc[s].phone].session_str = proc[s].client
                  ELSE PENDING_AUTH' = PENDING_AUTH
       /\ \A q \in DOMAIN PENDING_AUTH' :
            LET c == PENDING_AUTH'[q].session_str IN
            /\ clients'[c].key = <<>>
            /\ \A n \in DOMAIN ACTIVE_CLIENTS' : ACTIVE_CLIENTS'[n] # c
            /\ \/ clients'[c].status = "closed"
               \/ \E s \in Procs : proc'[s].op = "auth_start" /\ proc'[s].pc = "disconnect" /\ proc'[s].client = c]_vars

\* C19 witness: an auth_start has just ended with the 400 of an invalid
\* phone after an earlier one had stored a record; both clients are closed.
C19_Witness ==
    /\ last.op = "auth_start"
    /\ last.ret = "PhoneNumberInvalidError"
    /\ last.resp.status = 400
    /\ Len(clients) = 2
    /\ \A c \in DOMAIN clients : clients[c] = [status |-> "closed", key |-> <<>>]
    /\ PENDING_AUTH # <<>>
    /\ ACTIVE_CLIENTS = <<>>

\* C20: a phone that has a pending record loses it only in the step in
\* which sign_in returns in an auth_confirm or auth_confirm_2fa for that
\* phone; the record's session, handle or name change only in the step in
\* which send_code_request returns in an auth_start for that phone, and
\* then to the record of that request; and with these three unchanged the
\* flag is never reset, and is set only in the step in which an
\* auth_confirm for that phone gets the second-factor report.
C20_PendingFrame ==
    [][\A q \in DOMAIN PENDING_AUTH :
        LET old == PENDING_AUTH[q] IN
        IF q \notin DOMAIN PENDING_AUTH'
        THEN \E s \in Procs :
                /\ proc[s].op \in {"auth_confirm", "auth_confirm_2fa"}
                /\ Ends(s, proc[s].op, "sign_in")
                /\ last'.ret = "ok"
                /\ proc[s].phone = q
        ELSE LET new == PENDING_AUTH'[q] IN
             IF new.session_str # old.session_str \/ new.phone_code_hash # old.phone_code_hash \/ new.name # old.name
             THEN \E s \in Procs :
                    /\ Moves(s, "auth_start", "send_code_request", "disconnect")
                    /\ proc'[s].ret = "ok"
                    /\ proc[s].phone = q
                    /\ new = pending_record(proc[s].client, proc[s].name)
             ELSE /\ old.needs_2fa => new.needs_2fa
                  /\ new.needs_2fa # old.needs_2fa
                     => \E s \in Procs :
                            /\ Moves(s, "auth_confirm", "sign_in", "disconnect")
                            /\ proc'[s].ret = "SessionPasswordNeededError"
                            /\ proc[s].phone = q]_vars

\* C20 witness: the login of "+1" is waiting for its password, the account
\* "a" has been added since, and an export_members for "a" has just
\* returned its members; the record of "+1" is the one auth_start stored,
\* flagged.
C20_Witness ==
    /\ last.op = "export_members"
    /\ last.ret = "ok"
    /\ <<"a">> \in DOMAIN ACTIVE_CLIENTS
    /\ <<"+", "1">> \in DOMAIN PENDING_AUTH
    /\ PENDING_AUTH[<<"+", "1">>] = [pending_record(1, <<"+", "1">>) EXCEPT !.needs_2fa = TRUE]

====
